---- MODULE Spec2Model ----
(***************************************************************************)
(* A model of ebaysdk/connection.py: the TokenManager (cached bearer token *)
(* with a one hour time-to-live) and BaseConnection (request build, send,  *)
(* response processing and error aggregation).                             *)
(*                                                                         *)
(* Python strings are sequences of one-character strings, so that          *)
(* startswith, lower, format and join are computed character by character. *)
(* None is the one-element sequence <<"None">>, which no string equals.    *)
(* Time is the wall clock in whole seconds.                                *)
(***************************************************************************)
EXTENDS Integers, Sequences, FiniteSets, TLC

VARIABLES now, ticks, tm, conn, tcall, ccall, threads, issued

vars == <<now, ticks, tm, conn, tcall, ccall, threads, issued>>

(***************************************************************************)
(* Bounds and program constants                                            *)
(***************************************************************************)
MaxTicks == 3

TOKEN_TTL_SECS == 3600

SECONDS_PER_DAY == 86400

None == <<"None">>

NoDate == -1

(***************************************************************************)
(* Python string helpers                                                   *)
(***************************************************************************)
UpperAlpha == <<"A","B","C","D","E","F","G","H","I","J","K","L","M",
                "N","O","P","Q","R","S","T","U","V","W","X","Y","Z">>

LowerAlpha == <<"a","b","c","d","e","f","g","h","i","j","k","l","m",
                "n","o","p","q","r","s","t","u","v","w","x","y","z">>

UpperToLower ==
    [c \in {UpperAlpha[i] : i \in 1..26} |->
        LowerAlpha[CHOOSE i \in 1..26 : UpperAlpha[i] = c]]

LowerChar(c) == IF c \in DOMAIN UpperToLower THEN UpperToLower[c] ELSE c

lower(s) == [i \in 1..Len(s) |-> LowerChar(s[i])]

startswith(s, p) == Len(p) <= Len(s) /\ SubSeq(s, 1, Len(p)) = p

\* Python truthiness of an optional string: None and "" are both false.
Truthy(s) == s # None /\ s # <<>>

\* str(x) as "%s" and "{}" render it: None prints as the word None.
str(s) == IF s = None THEN <<"N","o","n","e">> ELSE s

(***************************************************************************)
(* The token issuer and the clock                                          *)
(***************************************************************************)
TokA == <<"t","A">>

TokB == <<"t","B">>

\* What requests.post / response.json() / ['access_token'] can deliver.
IssuerResponses ==
    { [kind |-> "transport_failure", token |-> None],
      [kind |-> "not_json",          token |-> None],
      [kind |-> "no_field",          token |-> None],
      [kind |-> "ok",                token |-> <<>>],
      [kind |-> "ok",                token |-> TokA],
      [kind |-> "ok",                token |-> TokB] }

\* Gaps of wall-clock time between calls: around the TTL, a whole day, and
\* what is left of a day after one TTL.
Gaps == {1, TOKEN_TTL_SECS - 1, TOKEN_TTL_SECS,
         SECONDS_PER_DAY - TOKEN_TTL_SECS, SECONDS_PER_DAY}

(***************************************************************************)
(* TokenManager                                                            *)
(***************************************************************************)
NoTokenManager ==
    [exists |-> FALSE, current_token |-> None, date_token_fetched |-> NoDate]

TokenManagerInit ==
    [exists |-> TRUE, current_token |-> None, date_token_fetched |-> NoDate]

\* timedelta.seconds: the seconds field of the normalised (days, seconds,
\* microseconds) difference, always in 0 .. 86399.
timedelta_seconds(diff) == diff % SECONDS_PER_DAY

is_expired(self, t) ==
    IF self.date_token_fetched = NoDate
    THEN [outcome |-> "raise", exc |-> "TypeError", value |-> FALSE]
    ELSE [outcome |-> "return", exc |-> "",
          value |-> timedelta_seconds(t - self.date_token_fetched) >= TOKEN_TTL_SECS]

\* _send_request reading the field with dict.get instead of ['access_token'].
_send_request_get(issuer) ==
    IF issuer.kind \in {"no_field", "ok"}
    THEN [outcome |-> "return", exc |-> "", value |-> issuer.token]
    ELSE [outcome |-> "raise", exc |-> "RequestException", value |-> None]

_send_request(issuer) ==
    CASE issuer.kind = "transport_failure" ->
           [outcome |-> "raise", exc |-> "RequestException", value |-> None]
      [] issuer.kind = "not_json" ->
           [outcome |-> "raise", exc |-> "JSONDecodeError", value |-> None]
      [] issuer.kind = "no_field" ->
           [outcome |-> "raise", exc |-> "KeyError", value |-> None]
      [] issuer.kind = "ok" ->
           [outcome |-> "return", exc |-> "", value |-> issuer.token]

\* get_token at wall-clock time t, the issuer answering a refresh (if one is
\* sent) with `issuer`.  Yields the manager afterwards and what the caller saw.
get_token(self, t, issuer) ==
    LET exp   == IF Truthy(self.current_token)
                 THEN is_expired(self, t)
                 ELSE [outcome |-> "return", exc |-> "", value |-> FALSE]
        fetch == ~Truthy(self.current_token) \/ exp.value
        sent  == _send_request(issuer)
    IN  IF Truthy(self.current_token) /\ exp.outcome = "raise"
        THEN [tm |-> self, outcome |-> "raise", exc |-> exp.exc,
              value |-> None, requests |-> 0]
        ELSE IF fetch
        THEN IF sent.outcome = "raise"
             THEN [tm |-> self, outcome |-> "raise", exc |-> sent.exc,
                   value |-> None, requests |-> 1]
             ELSE [tm |-> [self EXCEPT !.current_token = sent.value,
                                       !.date_token_fetched = t],
                   outcome |-> "return", exc |-> "",
                   value |-> sent.value, requests |-> 1]
        ELSE [tm |-> self, outcome |-> "return", exc |-> "",
              value |-> self.current_token, requests |-> 0]

\* The issuer answers only when get_token sends a refresh.
IssuerConsulted(tmgr, t, responses) ==
    IF get_token(tmgr, t, [kind |-> "ok", token |-> TokA]).requests = 0
    THEN {[kind |-> "none", token |-> None]}
    ELSE responses

\* The record of the latest TokenManager call, as its caller observed it.
NoTokenCall ==
    [op |-> "none", outcome |-> "none", exc |-> "", value |-> None,
     flag |-> FALSE, requests |-> 0, at |-> 0,
     issuer |-> [kind |-> "none", token |-> None],
     pre_token |-> None, pre_date |-> NoDate]

TokenCall(self, t, issuer, r) ==
    [op |-> "get_token", outcome |-> r.outcome, exc |-> r.exc,
     value |-> r.value, flag |-> FALSE, requests |-> r.requests, at |-> t,
     issuer |-> issuer,
     pre_token |-> self.current_token, pre_date |-> self.date_token_fetched]

(***************************************************************************)
(* Threads sharing one TokenManager                                        *)
(***************************************************************************)
\* The threads that call get_token() on the shared manager.
Threads == {1, 2}

TokC == <<"t","C">>

\* The tokens the issuer hands out, one per refresh request, in this order.
RaceTokens == <<TokA, TokB, TokC>>

\* Wall-clock time that passes while a thread waits for the issuer.
RaceGaps == {1, TOKEN_TTL_SECS - 1, TOKEN_TTL_SECS}

\* A thread outside get_token(); `fetched` is the local result of
\* _send_request(), outcome/exc/value what its latest call gave its caller.
IdleThread ==
    [pc |-> "idle", fetched |-> None, outcome |-> "none", exc |-> "",
     value |-> None]

NoThreads == [i \in Threads |-> IdleThread]

(***************************************************************************)
(* Strings the connection handles                                          *)
(***************************************************************************)
GetItem == <<"G","e","t","I","t","e","m">>

\* The literal text of "%sresponse.%s" between its two arguments.
ResponseDot == <<"r","e","s","p","o","n","s","e",".">>

\* The literal text of "{verb}: {message}" between its two arguments.
ColonSpace == <<":"," ">>

CommaSpace == <<","," ">>

ItemVariations == <<"i","t","e","m",".","v","a","r","i","a","t","i","o","n","s">>

GetItemResponseItem == <<"g","e","t","i","t","e","m","r","e","s","p","o","n","s","e",".","i","t","e","m">>

GetItemsId == <<"g","e","t","i","t","e","m","s",".","i","d">>

ItemPictureUrl == <<"i","t","e","m",".","p","i","c","t","u","r","e","u","r","l">>

InvalidID == <<"I","n","v","a","l","i","d"," ","I","D">>

BadSku == <<"B","a","d"," ","S","K","U">>

NotFound == <<"N","o","t"," ","F","o","u","n","d">>

OK == <<"O","K">>

UserAgent == <<"e","B","a","y","S","D","K">>

TextXml == <<"t","e","x","t","/","x","m","l">>

SchemeSep == <<":","/","/">>

Domain == <<"a","p","i",".","e","b","a","y",".","c","o","m">>

Uri == <<"/","w","s","/","a","p","i">>

HTTP_SSL(flag) == IF flag THEN <<"h","t","t","p","s">> ELSE <<"h","t","t","p">>

Uuid1 == <<"u","1">>

Uuid2 == <<"u","2">>

\* uuid.uuid4(): a value the call before was not given.
uuid4(previous) == IF previous = Uuid1 THEN Uuid2 ELSE Uuid1

(***************************************************************************)
(* BaseConnection: inputs                                                  *)
(***************************************************************************)
\* kwargs.get('client_id') / kwargs.get('client_secret'): absent, empty, set.
Credentials == {None, <<>>, <<"i","d">>}

\* The configuration a subclass hands the connection (self.config).
Configs ==
    { [k \in {"domain", "uri"} |->
          IF k = "domain" THEN Domain ELSE Uri],
      [k \in {"domain", "uri", "errors", "https"} |->
          IF k = "domain" THEN Domain ELSE IF k = "uri" THEN Uri ELSE <<"T">>],
      [k \in {"domain", "uri", "errors", "https"} |->
          IF k = "domain" THEN Domain ELSE IF k = "uri" THEN Uri ELSE <<"F">>] }

\* dict.get(key, default)
ConfigGet(cfg, key, default) == IF key \in DOMAIN cfg THEN cfg[key] ELSE default

\* The booleans of the configuration are carried as <<"T">> and <<"F">>.
Flag(v) == v = <<"T">>

NoHeaders == [n \in {} |-> <<>>]

\* What a subclass's build_request_headers returns; the base returns {}.
HookHeaders ==
    { NoHeaders,
      [n \in {"Content-Type", "X-EBAY-API-IAF-TOKEN", "X-EBAY-SDK-REQUEST-ID"} |->
          IF n = "Content-Type" THEN TextXml ELSE <<"o","l","d">>] }

CallerListNodes ==
    { <<>>, <<ItemVariations, GetItemResponseItem>>, <<GetItemsId>> }

BaseListNodes == { <<>>, <<ItemPictureUrl>> }

Verbs == {GetItem, None}

\* The token issuer's answers during execute().
ExecIssuerResponses ==
    { [kind |-> "no_field", token |-> None],
      [kind |-> "ok",       token |-> TokA] }

NoResponse ==
    [kind |-> "None", status_code |-> 0, reason |-> None,
     has_dom |-> FALSE, errors |-> <<>>, list_nodes |-> <<>>]

RawResponse(status, reason, has_dom, errors) ==
    [kind |-> "raw", status_code |-> status, reason |-> reason,
     has_dom |-> has_dom, errors |-> errors, list_nodes |-> <<>>]

\* What session.send delivers: a response, or an exception.
TransportOutcomes ==
    { RawResponse(200, OK, TRUE, <<>>),
      RawResponse(200, OK, TRUE, <<InvalidID>>),
      RawResponse(200, OK, TRUE, <<InvalidID, BadSku>>),
      RawResponse(200, OK, FALSE, <<>>),
      RawResponse(404, NotFound, TRUE, <<>>),
      RawResponse(404, NotFound, TRUE, <<InvalidID>>),
      RawResponse(404, <<>>, TRUE, <<>>),
      [NoResponse EXCEPT !.kind = "raise"] }

NoRequest ==
    [kind |-> "None", url |-> None, headers |-> NoHeaders,
     data |-> "none", files |-> FALSE]

(***************************************************************************)
(* BaseConnection                                                          *)
(***************************************************************************)
NoConnection ==
    [exists |-> FALSE, parallel |-> FALSE, config |-> NoHeaders,
     hook_headers |-> NoHeaders, base_list_nodes |-> <<>>,
     response |-> NoResponse, request |-> NoRequest, verb |-> None,
     _list_nodes |-> <<>>, _request_id |-> None, _response_error |-> None,
     _resp_body_errors |-> <<>>]

\* _reset without the line `self._response_error = None`.
_reset_keeping_error(self) ==
    [self EXCEPT !.response = NoResponse, !.request = NoRequest,
                 !.verb = None, !._list_nodes = <<>>, !._request_id = None,
                 !._resp_body_errors = <<>>]

_reset(self) ==
    [self EXCEPT !.response = NoResponse, !.request = NoRequest,
                 !.verb = None, !._list_nodes = <<>>, !._request_id = None,
                 !._response_error = None, !._resp_body_errors = <<>>]

\* BaseConnection.__init__ once the credentials are accepted.
ConnectionInit(parallel, config, hook_headers, base_list_nodes) ==
    _reset([NoConnection EXCEPT !.exists = TRUE, !.parallel = parallel,
                                !.config = config,
                                !.hook_headers = hook_headers,
                                !.base_list_nodes = base_list_nodes])

_add_prefix(nodes, verb) ==
    IF Truthy(verb)
    THEN [i \in 1..Len(nodes) |->
            IF ~startswith(nodes[i], lower(verb))
            THEN lower(verb) \o ResponseDot \o lower(nodes[i])
            ELSE nodes[i]]
    ELSE nodes

\* Lines 182-186 of execute: the per-call list of list-node paths.
merge_list_nodes(self, list_nodes, verb) ==
    [self EXCEPT !._list_nodes =
        _add_prefix(self._list_nodes \o list_nodes, verb) \o self.base_list_nodes]

\* build_request_url reading the flag as config.get('https', False).
build_request_url_default_http(self, verb) ==
    HTTP_SSL(Flag(ConfigGet(self.config, "https", <<"F">>)))
        \o SchemeSep
        \o str(ConfigGet(self.config, "domain", None))
        \o str(ConfigGet(self.config, "uri", None))

build_request_url(self, verb) ==
    HTTP_SSL(Flag(ConfigGet(self.config, "https", <<"T">>)))
        \o SchemeSep
        \o str(ConfigGet(self.config, "domain", None))
        \o str(ConfigGet(self.config, "uri", None))

build_request_headers(self, verb) == self.hook_headers

build_request_data(self, verb) == "str"

\* dict.update with one key
HeaderSet(h, k, v) == [n \in DOMAIN h \cup {k} |-> IF n = k THEN v ELSE h[n]]

\* del h[k], for a key that is present
HeaderDel(h, k) == [n \in DOMAIN h \ {k} |-> h[n]]

\* build_request catching the exception of get_token() and going on with
\* no token.
build_request_ignoring_token_failure(self, tmgr, t, verb, files, issuer, rid) ==
    LET s1  == [self EXCEPT !.verb = verb, !._request_id = rid]
        tok == get_token(tmgr, t, issuer)
        h2  == HeaderSet(HeaderSet(HeaderSet(build_request_headers(s1, verb),
                                             "User-Agent", UserAgent),
                                   "X-EBAY-SDK-REQUEST-ID", str(rid)),
                         "X-EBAY-API-IAF-TOKEN", tok.value)
    IN  IF files /\ "Content-Type" \notin DOMAIN h2
        THEN [conn |-> s1, tm |-> tok.tm, tok |-> tok,
              outcome |-> "raise", exc |-> "KeyError"]
        ELSE [conn |-> [s1 EXCEPT !.request =
                          [kind |-> "request",
                           url |-> build_request_url(s1, verb),
                           headers |-> IF files
                                       THEN HeaderDel(h2, "Content-Type")
                                       ELSE h2,
                           data |-> IF files /\ build_request_data(s1, verb) = "str"
                                    THEN "XMLPayload"
                                    ELSE build_request_data(s1, verb),
                           files |-> files]],
              tm |-> tok.tm, tok |-> tok, outcome |-> "return", exc |-> ""]

\* build_request applying the hook's headers over the fixed ones.
build_request_hook_wins(self, tmgr, t, verb, files, issuer, rid) ==
    LET s1  == [self EXCEPT !.verb = verb, !._request_id = rid]
        tok == get_token(tmgr, t, issuer)
        hk  == build_request_headers(s1, verb)
        h1  == HeaderSet(HeaderSet(HeaderSet(NoHeaders,
                                             "User-Agent", UserAgent),
                                   "X-EBAY-SDK-REQUEST-ID", str(rid)),
                         "X-EBAY-API-IAF-TOKEN", tok.value)
        h2  == [n \in DOMAIN h1 \cup DOMAIN hk |->
                   IF n \in DOMAIN hk THEN hk[n] ELSE h1[n]]
    IN  IF tok.outcome = "raise"
        THEN [conn |-> s1, tm |-> tok.tm, tok |-> tok,
              outcome |-> "raise", exc |-> tok.exc]
        ELSE IF files /\ "Content-Type" \notin DOMAIN h2
        THEN [conn |-> s1, tm |-> tok.tm, tok |-> tok,
              outcome |-> "raise", exc |-> "KeyError"]
        ELSE [conn |-> [s1 EXCEPT !.request =
                          [kind |-> "request",
                           url |-> build_request_url(s1, verb),
                           headers |-> IF files
                                       THEN HeaderDel(h2, "Content-Type")
                                       ELSE h2,
                           data |-> IF files /\ build_request_data(s1, verb) = "str"
                                    THEN "XMLPayload"
                                    ELSE build_request_data(s1, verb),
                           files |-> files]],
              tm |-> tok.tm, tok |-> tok, outcome |-> "return", exc |-> ""]

build_request(self, tmgr, t, verb, files, issuer, rid) ==
    LET s1  == [self EXCEPT !.verb = verb, !._request_id = rid]
        url == build_request_url(s1, verb)
        h1  == HeaderSet(HeaderSet(build_request_headers(s1, verb),
                                   "User-Agent", UserAgent),
                         "X-EBAY-SDK-REQUEST-ID", str(rid))
        tok == get_token(tmgr, t, issuer)
        h2  == HeaderSet(h1, "X-EBAY-API-IAF-TOKEN", tok.value)
        dat == build_request_data(s1, verb)
    IN  IF tok.outcome = "raise"
        THEN [conn |-> s1, tm |-> tok.tm, tok |-> tok,
              outcome |-> "raise", exc |-> tok.exc]
        ELSE IF files /\ "Content-Type" \notin DOMAIN h2
        THEN [conn |-> s1, tm |-> tok.tm, tok |-> tok,
              outcome |-> "raise", exc |-> "KeyError"]
        ELSE [conn |-> [s1 EXCEPT !.request =
                          [kind |-> "request", url |-> url,
                           headers |-> IF files
                                       THEN HeaderDel(h2, "Content-Type")
                                       ELSE h2,
                           data |-> IF files /\ dat = "str"
                                    THEN "XMLPayload" ELSE dat,
                           files |-> files]],
              tm |-> tok.tm, tok |-> tok, outcome |-> "return", exc |-> ""]

\* execute_request without the `return None` after the enqueue.
execute_request_fallthrough(self, transport) ==
    IF transport.kind = "raise"
    THEN [conn |-> self, outcome |-> "raise", exc |-> "RequestException",
          sends |-> 1, enqueued |-> IF self.parallel THEN 1 ELSE 0]
    ELSE [conn |-> [self EXCEPT !.response =
                       IF self.parallel
                       THEN RawResponse(200, OK, TRUE, <<>>) ELSE transport],
          outcome |-> "return", exc |-> "", sends |-> 1,
          enqueued |-> IF self.parallel THEN 1 ELSE 0]

execute_request(self, transport) ==
    IF self.parallel
    THEN [conn |-> self, outcome |-> "return", exc |-> "",
          sends |-> 0, enqueued |-> 1]
    ELSE IF transport.kind = "raise"
    THEN [conn |-> self, outcome |-> "raise", exc |-> "RequestException",
          sends |-> 1, enqueued |-> 0]
    ELSE [conn |-> [self EXCEPT !.response = transport],
          outcome |-> "return", exc |-> "", sends |-> 1, enqueued |-> 0]

\* Response(self.response, verb=..., list_nodes=self._list_nodes, ...)
Response(raw, list_nodes) ==
    [raw EXCEPT !.kind = "Response", !.list_nodes = list_nodes]

process_response(self) ==
    LET r == Response(self.response, self._list_nodes)
    IN  [self EXCEPT !.response = r,
                     !._response_error =
                         IF r.status_code # 200 THEN r.reason ELSE @]

\* The verb-specific extraction a subclass puts where the base returns [].
ExtractPayloadErrors(response) == response.errors

_get_resp_body_errors(self) ==
    IF Len(self._resp_body_errors) > 0
    THEN [outcome |-> "return", exc |-> "", value |-> self._resp_body_errors]
    ELSE IF self.verb = None
    THEN [outcome |-> "return", exc |-> "", value |-> <<>>]
    ELSE IF self.response.kind = "None"
    THEN [outcome |-> "raise", exc |-> "AttributeError", value |-> <<>>]
    ELSE IF ~self.response.has_dom
    THEN [outcome |-> "return", exc |-> "", value |-> <<>>]
    ELSE [outcome |-> "return", exc |-> "",
          value |-> ExtractPayloadErrors(self.response)]

smart_encode(e) == e

smart_decode(e) == e

\* u", ".join(seq)
RECURSIVE join(_, _)
join(sep, seq) ==
    IF Len(seq) = 0 THEN <<>>
    ELSE IF Len(seq) = 1 THEN seq[1]
    ELSE seq[1] \o sep \o join(sep, Tail(seq))

\* error() appending the transport error after the payload errors.
error_payload_first(self) ==
    LET body == _get_resp_body_errors(self)
        error_array ==
            body.value \o (IF Truthy(self._response_error)
                           THEN <<self._response_error>> ELSE <<>>)
    IN  IF body.outcome = "raise"
        THEN [outcome |-> "raise", exc |-> body.exc, value |-> None]
        ELSE IF Len(error_array) > 0
        THEN [outcome |-> "return", exc |-> "",
              value |-> str(self.verb) \o ColonSpace
                            \o join(CommaSpace, error_array)]
        ELSE [outcome |-> "return", exc |-> "", value |-> None]

error(self) ==
    LET body == _get_resp_body_errors(self)
        error_array ==
            (IF Truthy(self._response_error)
             THEN <<self._response_error>> ELSE <<>>) \o body.value
        decoded == [i \in 1..Len(error_array) |->
                        smart_decode(smart_encode(error_array[i]))]
    IN  IF body.outcome = "raise"
        THEN [outcome |-> "raise", exc |-> body.exc, value |-> None]
        ELSE IF Len(error_array) > 0
        THEN [outcome |-> "return", exc |-> "",
              value |-> str(self.verb) \o ColonSpace \o join(CommaSpace, decoded)]
        ELSE [outcome |-> "return", exc |-> "", value |-> None]

\* error_check() raising on any error string, whatever config['errors'] is.
error_check_ignoring_flag(self) ==
    LET estr == error(self)
    IN  IF estr.outcome = "raise"
        THEN [outcome |-> "raise", exc |-> estr.exc, estr |-> None]
        ELSE IF Truthy(estr.value)
        THEN [outcome |-> "raise", exc |-> "ConnectionError",
              estr |-> estr.value]
        ELSE [outcome |-> "return", exc |-> "", estr |-> estr.value]

error_check(self) ==
    LET estr == error(self)
    IN  IF estr.outcome = "raise"
        THEN [outcome |-> "raise", exc |-> estr.exc, estr |-> None]
        ELSE IF Truthy(estr.value)
                /\ Flag(ConfigGet(self.config, "errors", <<"T">>))
        THEN [outcome |-> "raise", exc |-> "ConnectionError",
              estr |-> estr.value]
        ELSE [outcome |-> "return", exc |-> "", estr |-> estr.value]

\* The record of the latest BaseConnection call, as its caller observed it.
NoConnCall ==
    [op |-> "none", outcome |-> "none", exc |-> "",
     client_id |-> None, client_secret |-> None,
     verb |-> None, list_nodes |-> <<>>, files |-> FALSE,
     transport |-> NoResponse, token |-> None,
     token_requests |-> 0, sends |-> 0, enqueued |-> 0, steps |-> <<>>,
     result |-> NoResponse, carried |-> NoResponse, estr |-> None,
     error_called |-> FALSE, last_error |-> None, last_error_exc |-> ""]

\* execute(verb, data, list_nodes, verb_attrs, files) at wall-clock time t.
execute(self, tmgr, t, verb, list_nodes, files, issuer, transport, rid) ==
    LET s0   == merge_list_nodes(_reset(self), list_nodes, verb)
        b    == build_request(s0, tmgr, t, verb, files, issuer, rid)
        x    == execute_request(b.conn, transport)
        p    == process_response(x.conn)
        e    == error_check(p)
        call == [NoConnCall EXCEPT !.op = "execute", !.verb = verb,
                                   !.list_nodes = list_nodes,
                                   !.files = files,
                                   !.token = b.tok.value,
                                   !.token_requests = b.tok.requests]
    IN  IF b.outcome = "raise"
        THEN [conn |-> b.conn, tm |-> b.tm, tok |-> b.tok,
              call |-> [call EXCEPT !.outcome = "raise", !.exc = b.exc,
                                    !.steps = <<"reset", "build">>]]
        ELSE IF x.outcome = "raise"
        THEN [conn |-> x.conn, tm |-> b.tm, tok |-> b.tok,
              call |-> [call EXCEPT !.outcome = "raise", !.exc = x.exc,
                                    !.transport = transport,
                                    !.sends = x.sends,
                                    !.steps = <<"reset", "build", "send">>]]
        ELSE IF x.conn.response.kind = "None"
        THEN [conn |-> x.conn, tm |-> b.tm, tok |-> b.tok,
              call |-> [call EXCEPT !.outcome = "return",
                                    !.sends = x.sends,
                                    !.enqueued = x.enqueued,
                                    !.result = x.conn.response,
                                    !.steps = <<"reset", "build", "enqueue">>]]
        ELSE [conn |-> p, tm |-> b.tm, tok |-> b.tok,
              call |-> [call EXCEPT !.outcome = e.outcome, !.exc = e.exc,
                                    !.transport = transport,
                                    !.sends = x.sends,
                                    !.estr = e.estr,
                                    !.result = IF e.outcome = "return"
                                               THEN p.response ELSE NoResponse,
                                    !.carried = IF e.outcome = "raise"
                                                THEN p.response ELSE NoResponse,
                                    !.steps = <<"reset", "build", "send",
                                                "process", "error_check">>]]

(***************************************************************************)
(* Actions on the TokenManager                                             *)
(***************************************************************************)
Tick ==
    /\ ticks < MaxTicks
    /\ \E d \in Gaps : now' = now + d
    /\ ticks' = ticks + 1
    /\ UNCHANGED <<tm, conn, tcall, ccall, threads, issued>>

GetToken ==
    /\ tm.exists
    /\ \E issuer \in IssuerConsulted(tm, now, IssuerResponses) :
          LET r == get_token(tm, now, issuer)
          IN  /\ tm' = r.tm
              /\ tcall' = TokenCall(tm, now, issuer, r)
    /\ UNCHANGED <<now, ticks, conn, ccall, threads, issued>>

IsExpired ==
    /\ tm.exists
    /\ LET r == is_expired(tm, now)
       IN  tcall' = [NoTokenCall EXCEPT !.op = "is_expired",
                        !.outcome = r.outcome, !.exc = r.exc,
                        !.flag = r.value, !.at = now,
                        !.pre_token = tm.current_token,
                        !.pre_date = tm.date_token_fetched]
    /\ UNCHANGED <<now, ticks, tm, conn, ccall, threads, issued>>

InitToken ==
    /\ now = 0
    /\ ticks = 0
    /\ tm = TokenManagerInit
    /\ conn = NoConnection
    /\ tcall = NoTokenCall
    /\ ccall = NoConnCall
    /\ threads = NoThreads
    /\ issued = <<>>

NextToken == Tick \/ GetToken \/ IsExpired

SpecToken == InitToken /\ [][NextToken]_vars

(***************************************************************************)
(* Actions on the BaseConnection                                           *)
(***************************************************************************)
\* The transport answers only when execute_request calls session.send.
TransportConsulted(self, tmgr, t, files, issuer) ==
    IF \/ self.parallel
       \/ build_request(self, tmgr, t, None, files, issuer, Uuid1).outcome = "raise"
    THEN {NoResponse}
    ELSE TransportOutcomes

\* if not client_id or not client_secret
credentials_missing_both(client_id, client_secret) ==
    ~Truthy(client_id) /\ ~Truthy(client_secret)

credentials_missing(client_id, client_secret) ==
    ~Truthy(client_id) \/ ~Truthy(client_secret)

\* BaseConnection(client_id=..., client_secret=..., parallel=...)
Construct ==
    /\ ~conn.exists
    /\ \E client_id \in Credentials, client_secret \in Credentials :
          LET call == [NoConnCall EXCEPT !.op = "construct",
                                         !.client_id = client_id,
                                         !.client_secret = client_secret]
          IN  IF credentials_missing(client_id, client_secret)
              THEN /\ ccall' = [call EXCEPT !.outcome = "raise",
                                            !.exc = "ValueError"]
                   /\ UNCHANGED <<tm, conn, threads, issued>>
              ELSE /\ \E parallel \in BOOLEAN, config \in Configs,
                         hook_headers \in HookHeaders,
                         base_list_nodes \in BaseListNodes :
                         conn' = ConnectionInit(parallel, config,
                                                hook_headers, base_list_nodes)
                   /\ tm' = TokenManagerInit
                   /\ ccall' = [call EXCEPT !.outcome = "return"]
    /\ UNCHANGED <<now, ticks, tcall, threads, issued>>

Execute ==
    /\ conn.exists
    /\ \E verb \in Verbs, list_nodes \in CallerListNodes, files \in BOOLEAN,
          issuer \in IssuerConsulted(tm, now, ExecIssuerResponses) :
          \E transport \in TransportConsulted(conn, tm, now, files, issuer) :
             \E r \in {execute(conn, tm, now, verb, list_nodes, files,
                              issuer, transport, uuid4(conn._request_id))} :
                 /\ conn' = r.conn
                 /\ tm' = r.tm
                 /\ tcall' = TokenCall(tm, now, issuer, r.tok)
                 /\ ccall' = r.call
    /\ UNCHANGED <<now, ticks, threads, issued>>

\* A caller asking error() of the connection after its latest call.
ErrorCall ==
    /\ conn.exists
    /\ LET r == error(conn)
       IN  ccall' = [ccall EXCEPT !.error_called = TRUE,
                                  !.last_error = r.value,
                                  !.last_error_exc = r.exc]
    /\ UNCHANGED <<now, ticks, tm, conn, tcall, threads, issued>>

InitConn ==
    /\ now = 0
    /\ ticks = 0
    /\ tm = NoTokenManager
    /\ conn = NoConnection
    /\ tcall = NoTokenCall
    /\ ccall = NoConnCall
    /\ threads = NoThreads
    /\ issued = <<>>

NextConn == Construct \/ Execute \/ ErrorCall

SpecConn == InitConn /\ [][NextConn]_vars

(***************************************************************************)
(* get_token() statement by statement, threads interleaving                *)
(***************************************************************************)
\* A thread enters get_token(); the issuer has a token left for every call
\* in progress.
Call(i) ==
    /\ threads[i].pc = "idle"
    /\ Len(issued) + Cardinality({j \in Threads : threads[j].pc # "idle"})
          < Len(RaceTokens)
    /\ threads' = [threads EXCEPT ![i] = [IdleThread EXCEPT !.pc = "check_token"]]
    /\ UNCHANGED <<now, ticks, tm, conn, tcall, ccall, issued>>

\* `not self.__current_token`: a falsy token goes straight to the refresh.
CheckToken(i) ==
    /\ threads[i].pc = "check_token"
    /\ threads' = [threads EXCEPT ![i].pc =
                      IF Truthy(tm.current_token)
                      THEN "is_expired" ELSE "_send_request"]
    /\ UNCHANGED <<now, ticks, tm, conn, tcall, ccall, issued>>

\* `or self.is_expired()`, which raises when no date is stored yet.
CheckExpired(i) ==
    /\ threads[i].pc = "is_expired"
    /\ \E r \in {is_expired(tm, now)} :
          threads' = [threads EXCEPT ![i] =
                        IF r.outcome = "raise"
                        THEN [@ EXCEPT !.pc = "idle", !.outcome = "raise",
                                       !.exc = r.exc]
                        ELSE [@ EXCEPT !.pc = IF r.value THEN "_send_request"
                                              ELSE "return_cached"]]
    /\ UNCHANGED <<now, ticks, tm, conn, tcall, ccall, issued>>

\* self._send_request() returns the token the issuer made for this request.
SendRequest(i) ==
    /\ threads[i].pc = "_send_request"
    /\ Len(issued) < Len(RaceTokens)
    /\ \E r \in {_send_request([kind |-> "ok",
                                 token |-> RaceTokens[Len(issued) + 1]])} :
          /\ threads' = [threads EXCEPT ![i].pc = "store_token",
                                        ![i].fetched = r.value]
          /\ issued' = Append(issued, [token |-> r.value, at |-> now])
    /\ UNCHANGED <<now, ticks, tm, conn, tcall, ccall>>

\* self.__current_token = <what _send_request returned>
StoreToken(i) ==
    /\ threads[i].pc = "store_token"
    /\ tm' = [tm EXCEPT !.current_token = threads[i].fetched]
    /\ threads' = [threads EXCEPT ![i].pc = "store_date"]
    /\ UNCHANGED <<now, ticks, conn, tcall, ccall, issued>>

\* self.__date_token_fetched = datetime.now()
StoreDate(i) ==
    /\ threads[i].pc = "store_date"
    /\ tm' = [tm EXCEPT !.date_token_fetched = now]
    /\ threads' = [threads EXCEPT ![i].pc = "return_new"]
    /\ UNCHANGED <<now, ticks, conn, tcall, ccall, issued>>

\* return self.__current_token, on either branch
Return(i) ==
    /\ threads[i].pc \in {"return_new", "return_cached"}
    /\ threads' = [threads EXCEPT ![i].pc = "idle", ![i].outcome = "return",
                                  ![i].value = tm.current_token]
    /\ UNCHANGED <<now, ticks, tm, conn, tcall, ccall, issued>>

\* Time passes between calls, or while some thread is blocked on the issuer.
RaceTick ==
    /\ ticks < MaxTicks
    /\ \/ \A i \in Threads : threads[i].pc = "idle"
       \/ \E i \in Threads : threads[i].pc = "_send_request"
    /\ \E d \in RaceGaps : now' = now + d
    /\ ticks' = ticks + 1
    /\ UNCHANGED <<tm, conn, tcall, ccall, threads, issued>>

InitRace ==
    /\ now = 0
    /\ ticks = 0
    /\ tm = TokenManagerInit
    /\ conn = NoConnection
    /\ tcall = NoTokenCall
    /\ ccall = NoConnCall
    /\ threads = NoThreads
    /\ issued = <<>>

NextRace ==
    \/ RaceTick
    \/ \E i \in Threads :
          \/ Call(i) \/ CheckToken(i) \/ CheckExpired(i) \/ SendRequest(i)
          \/ StoreToken(i) \/ StoreDate(i) \/ Return(i)

SpecRace == InitRace /\ [][NextRace]_vars

(***************************************************************************)
(* Properties of the TokenManager (checked under SpecToken)                *)
(***************************************************************************)
LastIsGetToken == tcall.op = "get_token"

\* Wall-clock seconds between the fetch recorded before the call and the call.
ElapsedAtCall == tcall.at - tcall.pre_date

\* C1: get_token() never returns a token whose fetch happened TTL (3600) or
\* more seconds before the call, whatever time elapsed between calls.
C1_NeverReturnsExpired ==
    (LastIsGetToken /\ tcall.outcome = "return")
        => tcall.at - tm.date_token_fetched < TOKEN_TTL_SECS

\* C2: a get_token() call made less than TTL seconds after a fetch returns
\* the identical cached value and sends no refresh request, for every token
\* value the issuer may have returned.
C2_CachedWithinTTL ==
    (LastIsGetToken /\ tcall.pre_date # NoDate
        /\ ElapsedAtCall < TOKEN_TTL_SECS)
        => /\ tcall.outcome = "return"
           /\ tcall.requests = 0
           /\ tcall.value = tcall.pre_token

\* C3: when TTL seconds or more have elapsed since the last fetch, the next
\* get_token() sends exactly one refresh request and, the issuer delivering a
\* token, caches it with the time of the call and returns it.
C3_RefreshAfterTTL ==
    (LastIsGetToken /\ tcall.pre_date # NoDate
        /\ ElapsedAtCall >= TOKEN_TTL_SECS)
        => /\ tcall.requests = 1
           /\ tcall.issuer.kind = "ok"
                => /\ tcall.outcome = "return"
                   /\ tcall.value = tcall.issuer.token
                   /\ tm.current_token = tcall.issuer.token
                   /\ tm.date_token_fetched = tcall.at

\* C4: is_expired() returns a boolean, true exactly when the wall-clock time
\* since the last fetch is at least TTL (stated here for the states in which
\* a fetch has happened; before any fetch the call raises TypeError).
C4_IsExpiredIffElapsed ==
    (tcall.op = "is_expired" /\ tcall.pre_date # NoDate)
        => /\ tcall.outcome = "return"
           /\ tcall.flag <=> (ElapsedAtCall >= TOKEN_TTL_SECS)

\* The failures of a refresh that the specification calls CredentialError.
CredentialError == {"RequestException", "JSONDecodeError", "KeyError"}

\* C5: a refresh whose HTTP call fails, whose body is not JSON or whose JSON
\* has no access_token raises to the caller of get_token(), which returns no
\* value (and caches none).
C5_RefreshFailureRaises ==
    (LastIsGetToken
        /\ (~Truthy(tcall.pre_token) \/ ElapsedAtCall % SECONDS_PER_DAY >= TOKEN_TTL_SECS)
        /\ tcall.issuer.kind \in {"transport_failure", "not_json", "no_field"})
        => /\ tcall.outcome = "raise"
           /\ tcall.exc \in CredentialError
           /\ tcall.value = None
           /\ tcall.requests = 1
           /\ tm.current_token = tcall.pre_token

C5_Witness ==
    /\ LastIsGetToken
    /\ tcall.pre_token = TokA
    /\ ElapsedAtCall = TOKEN_TTL_SECS
    /\ tcall.issuer.kind = "no_field"
    /\ tcall.outcome = "raise"
    /\ tcall.exc = "KeyError"

(***************************************************************************)
(* Properties of the BaseConnection (checked under SpecConn)               *)
(***************************************************************************)
\* C6: constructing with client_id or client_secret missing fails with the
\* configuration error (ValueError) before a TokenManager exists and before
\* any token request or session send.
C6_MissingCredentialsRejected ==
    (ccall.op = "construct"
        /\ (~Truthy(ccall.client_id) \/ ~Truthy(ccall.client_secret)))
        => /\ ccall.outcome = "raise"
           /\ ccall.exc = "ValueError"
           /\ ~tm.exists
           /\ ~conn.exists
           /\ tcall.op = "none"
           /\ ccall.token_requests = 0
           /\ ccall.sends = 0

C6_Witness ==
    /\ ccall.op = "construct"
    /\ ccall.client_id = <<"i","d">>
    /\ ccall.client_secret = None
    /\ ccall.outcome = "raise"

\* The latest call was an execute() whose response went through
\* process_response and error_check.
Processed ==
    /\ ccall.op = "execute"
    /\ ccall.transport.kind = "raw"
    /\ Len(ccall.steps) = 5

\* What the extraction hook yields on the processed response.
HookYield == _get_resp_body_errors(conn).value

\* C7: after a response is processed, error() is None exactly when the
\* status is 200 and the extraction hook yields the empty list; every
\* non-200 response yields an error, whatever its reason phrase.
C7_NoErrorIffCleanResponse ==
    Processed
        => ((ccall.estr = None)
              <=> (ccall.transport.status_code = 200 /\ HookYield = <<>>))

\* The messages error() is to report: the recorded transport error, if any,
\* then the payload errors in the hook's order.
ExpectedMessages ==
    (IF ccall.transport.status_code # 200 /\ Truthy(ccall.transport.reason)
     THEN <<ccall.transport.reason>> ELSE <<>>) \o HookYield

ExpectedErrorString ==
    LET m == ExpectedMessages
    IN  str(ccall.verb) \o <<":", " ">> \o
        (CASE Len(m) = 1 -> m[1]
           [] Len(m) = 2 -> m[1] \o <<",", " ">> \o m[2]
           [] Len(m) = 3 -> m[1] \o <<",", " ">> \o m[2] \o <<",", " ">> \o m[3])

\* C8: with at least one error present, error() is "<verb>: " followed by
\* the messages joined with ", ", transport error first, payload errors in
\* extraction order; asking again gives the same string.
C8_ErrorStringFormat ==
    (Processed /\ Len(ExpectedMessages) > 0)
        => /\ ccall.estr = ExpectedErrorString
           /\ ccall.error_called
                => (ccall.last_error = ExpectedErrorString
                      /\ ccall.last_error_exc = "")

C8_Witness ==
    /\ Processed
    /\ ccall.verb = GetItem
    /\ ccall.transport.status_code = 404
    /\ ccall.transport.errors = <<InvalidID>>
    /\ ccall.error_called
    /\ ccall.last_error = GetItem \o <<":", " ">> \o NotFound
                            \o <<",", " ">> \o InvalidID

\* The errors flag of the configuration, true when absent.
ErrorsEnabled ==
    "errors" \notin DOMAIN conn.config \/ conn.config["errors"] = <<"T">>

\* C9: for a call that received a transport response, execute() raises the
\* response error carrying the normalized result exactly when error() is
\* non-empty and the errors flag is enabled (the default); otherwise it
\* returns the normalized result, and the message stays retrievable.
C9_RaiseIffErrorAndFlag ==
    Processed
        => /\ (ccall.outcome = "raise") <=> (Truthy(ccall.estr) /\ ErrorsEnabled)
           /\ ccall.outcome = "raise"
                => /\ ccall.exc = "ConnectionError"
                   /\ ccall.carried = conn.response
                   /\ ccall.carried.kind = "Response"
           /\ ccall.outcome # "raise"
                => /\ ccall.outcome = "return"
                   /\ ccall.result = conn.response
                   /\ ccall.result.kind = "Response"
           /\ (ccall.error_called /\ ~ErrorsEnabled /\ HookYield # <<>>)
                => (Truthy(ccall.last_error) /\ ccall.last_error = ccall.estr)

C9_Witness ==
    /\ Processed
    /\ ~ErrorsEnabled
    /\ ccall.verb = GetItem
    /\ ccall.transport.status_code = 200
    /\ ccall.transport.errors = <<InvalidID>>
    /\ ccall.outcome = "return"
    /\ ccall.error_called
    /\ ccall.last_error = GetItem \o <<":", " ">> \o InvalidID

\* C10: after execute() merges the caller's list-node paths with the
\* instance defaults for verb V, every path of the per-call list starts with
\* "<lowercase V>response." (stated here for the calls whose response was
\* processed with that list).
C10_AllPathsPrefixed ==
    (Processed /\ Truthy(ccall.verb))
        => \A i \in 1..Len(conn._list_nodes) :
              startswith(conn._list_nodes[i],
                         lower(ccall.verb) \o <<"r","e","s","p","o","n","s","e",".">>)

\* The latest call was an execute() whose build_request ran to its end.
Built == ccall.op = "execute" /\ conn.request.kind = "request"

\* C11: every built request carries the User-Agent header, the request-id
\* header equal to the id generated for that call and the token header equal
\* to what get_token() returned during the build, whatever the hook's headers.
C11_FixedHeadersAlwaysAttached ==
    Built
        => /\ {"User-Agent", "X-EBAY-SDK-REQUEST-ID", "X-EBAY-API-IAF-TOKEN"}
                 \subseteq DOMAIN conn.request.headers
           /\ conn.request.headers["User-Agent"] = UserAgent
           /\ conn._request_id \in {Uuid1, Uuid2}
           /\ conn.request.headers["X-EBAY-SDK-REQUEST-ID"] = conn._request_id
           /\ tcall.op = "get_token" /\ tcall.outcome = "return"
           /\ conn.request.headers["X-EBAY-API-IAF-TOKEN"] = tcall.value
           /\ ccall.token = tcall.value

C11_Witness ==
    /\ Built
    /\ "X-EBAY-API-IAF-TOKEN" \in DOMAIN conn.hook_headers
    /\ "X-EBAY-SDK-REQUEST-ID" \in DOMAIN conn.hook_headers
    /\ conn.request.headers["X-EBAY-API-IAF-TOKEN"] = TokA
    /\ conn.request.headers["X-EBAY-SDK-REQUEST-ID"] = Uuid2

\* C12: with attachments passed to execute() (and a token obtained), the
\* build completes with a request that has no Content-Type header and the
\* textual payload wrapped under a named field, whether or not the header
\* hook supplied a Content-Type.
C12_AttachmentsBuildCompletes ==
    (ccall.op = "execute" /\ ccall.files /\ tcall.outcome = "return")
        => /\ conn.request.kind = "request"
           /\ "Content-Type" \notin DOMAIN conn.request.headers
           /\ conn.request.data = "XMLPayload"

\* The latest call was an execute() in parallel mode that got past the build.
ParallelBuilt ==
    /\ ccall.op = "execute"
    /\ conn.parallel
    /\ ~(ccall.outcome = "raise" /\ ccall.steps = <<"reset", "build">>)

\* C13: with a parallel context active, execute() builds the request fully,
\* enqueues it exactly once, never calls the transport send, skips response
\* processing and the error check, returns no response and leaves the
\* response state as the per-call reset left it.
C13_ParallelEnqueuesOnly ==
    ParallelBuilt
        => /\ conn.request.kind = "request"
           /\ ccall.enqueued = 1
           /\ ccall.sends = 0
           /\ ccall.steps = <<"reset", "build", "enqueue">>
           /\ ccall.outcome = "return"
           /\ ccall.result = NoResponse
           /\ conn.response = NoResponse
           /\ conn._response_error = None
           /\ conn._resp_body_errors = <<>>

C13_Witness ==
    /\ ParallelBuilt
    /\ ccall.verb = GetItem
    /\ ccall.enqueued = 1
    /\ conn.request.kind = "request"

\* C14: a send that raises instead of returning a response is recorded on
\* the result and folded into the aggregated message, so that error()
\* reports it as it reports a non-200 status.
C14_SendFailureFoldedIntoError ==
    (ccall.op = "execute" /\ ccall.sends = 1 /\ ccall.transport.kind = "raise")
        => /\ Truthy(conn._response_error)
           /\ error(conn).outcome = "return"
           /\ Truthy(error(conn).value)

\* The headers of a request apart from the per-call id and the token.
StableHeaders(h) ==
    [n \in DOMAIN h \ {"X-EBAY-SDK-REQUEST-ID", "X-EBAY-API-IAF-TOKEN"} |-> h[n]]

\* The URL the configuration asks for: scheme://domain followed by the path.
ExpectedUrl(config) ==
    (IF "https" \in DOMAIN config /\ config["https"] = <<"F">>
     THEN <<"h","t","t","p">> ELSE <<"h","t","t","p","s">>)
        \o <<":","/","/">> \o config["domain"] \o config["uri"]

\* A step of execute() on a connection: the only step that draws a new id.
ExecuteStep == conn.exists /\ conn'._request_id # conn._request_id

\* Two builds in a row for the same verb and attachments on one
\* configuration give the same URL, payload and headers apart from id/token.
SameBuildTwice ==
    (/\ ExecuteStep
     /\ conn.request.kind = "request" /\ conn'.request.kind = "request"
     /\ conn'.verb = conn.verb
     /\ conn'.request.files = conn.request.files)
        => /\ conn'.request.url = conn.request.url
           /\ conn'.request.data = conn.request.data
           /\ StableHeaders(conn'.request.headers)
                 = StableHeaders(conn.request.headers)
           /\ conn'.request.headers["X-EBAY-SDK-REQUEST-ID"]
                 # conn.request.headers["X-EBAY-SDK-REQUEST-ID"]

\* C15: building a request twice for the same verb, payload and
\* configuration gives the same URL and the same headers except for the
\* request-id and token headers, and the URL is scheme://domain followed by
\* the configured path with scheme https unless the https flag is false.
C15_BuildDeterministicUrlShape ==
    /\ [](Built => conn.request.url = ExpectedUrl(conn.config))
    /\ [][SameBuildTwice]_vars

C15_Witness ==
    /\ Built
    /\ conn._request_id = Uuid2
    /\ "https" \in DOMAIN conn.config /\ conn.config["https"] = <<"F">>
    /\ conn.request.url = <<"h","t","t","p">> \o SchemeSep \o Domain \o Uri
    /\ "Content-Type" \in DOMAIN conn.request.headers

\* The connection as __init__ leaves it, with this connection's settings.
FreshConnection ==
    ConnectionInit(conn.parallel, conn.config, conn.hook_headers,
                   conn.base_list_nodes)

\* An execute() leaves the connection, and gives its caller, exactly what it
\* would on a connection that never ran a call before.
ExecuteAsOnFresh ==
    ExecuteStep
        => \E r \in {execute(FreshConnection, tm, now, ccall'.verb,
                            ccall'.list_nodes, ccall'.files, tcall'.issuer,
                            ccall'.transport, conn'._request_id)} :
              /\ conn' = r.conn
              /\ ccall' = r.call
              /\ conn'.base_list_nodes = conn.base_list_nodes

\* C18: every execute() starts from a fresh per-call context however the
\* call before ended: the outcome, the list-node paths, the error() message
\* and the connection's state after the call are those of the same call on a
\* connection that never ran one, and the instance-level default list is
\* left as it was.
C18_FreshContextEachCall == [][ExecuteAsOnFresh]_vars

C18_Witness ==
    /\ ccall.op = "execute"
    /\ conn._request_id = Uuid2
    /\ Processed
    /\ ccall.outcome = "return"
    /\ conn._response_error = None
    /\ conn.base_list_nodes # <<>>
    /\ ccall.list_nodes # <<>>

AllSteps == <<"reset", "build", "send", "process", "error_check">>

\* C19: in non-parallel mode the steps of one execute() are reset, token
\* acquisition and build, send, response processing, error check, in that
\* order and with none skipped: the call stops early only where a step
\* raised; a failed token acquisition dispatches nothing to the transport
\* and leaves the connection with no response.
C19_StepOrder ==
    (ccall.op = "execute" /\ ~conn.parallel)
        => /\ \E n \in 2..5 : ccall.steps = SubSeq(AllSteps, 1, n)
           /\ tcall.op = "get_token"
           /\ tcall.outcome = "raise"
                 => /\ ccall.steps = <<"reset", "build">>
                    /\ ccall.outcome = "raise" /\ ccall.exc = tcall.exc
                    /\ ccall.sends = 0
                    /\ conn.request = NoRequest
                    /\ conn.response = NoResponse
           /\ ccall.steps = <<"reset", "build">>
                 <=> (ccall.outcome = "raise" /\ conn.request = NoRequest)
           /\ conn.request.kind = "request"
                 => /\ ccall.sends = 1
                    /\ conn.request.headers["X-EBAY-API-IAF-TOKEN"] = tcall.value
           /\ ccall.steps = <<"reset", "build", "send">>
                 <=> (ccall.sends = 1 /\ ccall.transport.kind = "raise")
           /\ (ccall.sends = 1 /\ ccall.transport.kind # "raise")
                 => /\ ccall.steps = AllSteps
                    /\ conn.response.kind = "Response"
                    /\ conn.response.status_code = ccall.transport.status_code
                    /\ ccall.outcome = "raise" => Truthy(ccall.estr)
           /\ ccall.enqueued = 0

C19_Witness ==
    /\ ccall.op = "execute" /\ ~conn.parallel
    /\ tcall.outcome = "raise"
    /\ ccall.steps = <<"reset", "build">>
    /\ conn._request_id = Uuid2

(***************************************************************************)
(* Frame of a failed refresh (checked under SpecToken)                     *)
(***************************************************************************)
\* The latest call was a get_token() whose refresh request failed.
RefreshFailed ==
    tcall.op = "get_token" /\ tcall.outcome = "raise" /\ tcall.requests = 1

\* The get_token() that follows a failed refresh sends a refresh request.
RefreshAttemptedAgain ==
    (RefreshFailed /\ tcall'.op = "get_token") => tcall'.requests = 1

\* C20: a refresh that fails inside get_token() leaves the cached token and
\* the cached fetch timestamp exactly as they were before the call, and the
\* next get_token() call attempts a refresh again.
C20_FailedRefreshFrame ==
    /\ [](RefreshFailed => /\ tm.current_token = tcall.pre_token
                           /\ tm.date_token_fetched = tcall.pre_date)
    /\ [][RefreshAttemptedAgain]_vars

(***************************************************************************)
(* Properties of concurrent get_token() calls (checked under SpecRace)     *)
(***************************************************************************)
IssuedTokens == {issued[k].token : k \in 1..Len(issued)}

\* When _send_request() returned the token to the thread that asked for it.
FetchedAt(token) ==
    issued[CHOOSE k \in 1..Len(issued) : issued[k].token = token].at

\* C16: with every refresh request succeeding, in every interleaving of two
\* get_token() calls on one TokenManager neither call fails and each returns
\* a token obtained from the issuer.
C16_ConcurrentCallsBothSucceed ==
    \A i \in Threads :
        /\ threads[i].outcome # "raise"
        /\ threads[i].outcome = "return" => threads[i].value \in IssuedTokens

\* C17: under racing refreshes the cached fetch timestamp is never later
\* than the fetch of the token cached alongside it.
C17_TimestampNotLaterThanFetch ==
    (tm.current_token \in IssuedTokens /\ tm.date_token_fetched # NoDate)
        => tm.date_token_fetched <= FetchedAt(tm.current_token)

====
